---------------------------- MODULE Spec2Model ----------------------------
(***************************************************************************)
(* A model of the ARIA block cipher of aria.c (IETF RFC 5794).             *)
(*                                                                         *)
(* A uint64_t is a sequence of 8 bytes, most significant byte first, so    *)
(* that shifts lose the bits a 64-bit register loses.  An aria_u128_t is a *)
(* record of two such words, left and right, as in the source.             *)
(***************************************************************************)
EXTENDS Integers, Sequences, FiniteSets, TLC

(***************************************************************************)
(* 64-bit word arithmetic: the C operators ^, |, &, << and >> on uint64_t. *)
(***************************************************************************)
RECURSIVE BitXor(_, _, _)
BitXor(a, b, n) ==
  IF n = 0 THEN 0
  ELSE ((a + b) % 2) + 2 * BitXor(a \div 2, b \div 2, n - 1)

RECURSIVE BitOr(_, _, _)
BitOr(a, b, n) ==
  IF n = 0 THEN 0
  ELSE (IF (a % 2) + (b % 2) > 0 THEN 1 ELSE 0)
       + 2 * BitOr(a \div 2, b \div 2, n - 1)

RECURSIVE BitAnd(_, _, _)
BitAnd(a, b, n) ==
  IF n = 0 THEN 0
  ELSE ((a % 2) * (b % 2)) + 2 * BitAnd(a \div 2, b \div 2, n - 1)

XorTab == [a \in 0..255 |-> [b \in 0..255 |-> BitXor(a, b, 8)]]

OrTab == [a \in 0..255 |-> [b \in 0..255 |-> BitOr(a, b, 8)]]

AndTab == [a \in 0..255 |-> [b \in 0..255 |-> BitAnd(a, b, 8)]]

Pow2 == <<1, 2, 4, 8, 16, 32, 64, 128, 256>>

\* F applied to the value of e, which is computed once
Bind(e, F(_)) == CHOOSE r \in {F(v) : v \in {e}} : TRUE

\* byte k of word w (1 = most significant), 0 beyond either end
ByteOf(w, k) == IF k \in 1..8 THEN w[k] ELSE 0

xor64(a, b) == [k \in 1..8 |-> XorTab[a[k]][b[k]]]

or64(a, b) == [k \in 1..8 |-> OrTab[a[k]][b[k]]]

and64(a, b) == [k \in 1..8 |-> AndTab[a[k]][b[k]]]

\* w << n on a uint64_t, 0 <= n < 64: the bits shifted out are lost
shl64(w, n) ==
  LET q == n \div 8
      r == n % 8
  IN [k \in 1..8 |->
        ((ByteOf(w, k + q) * Pow2[r + 1]) % 256)
        + (ByteOf(w, k + q + 1) \div Pow2[9 - r])]

\* w >> n on a uint64_t, 0 <= n < 64
shr64(w, n) ==
  LET q == n \div 8
      r == n % 8
  IN [k \in 1..8 |->
        (ByteOf(w, k - q) \div Pow2[r + 1])
        + ((ByteOf(w, k - q - 1) * Pow2[9 - r]) % 256)]

\* a value 0..255 (a uint8_t) converted to uint64_t
u64(b) == <<0, 0, 0, 0, 0, 0, 0, b>>

\* the conversion of a uint64_t to uint8_t
u8(w) == w[8]

Mask_ff == u64(255)

(***************************************************************************)
(* aria_u128_t and its three operations.                                   *)
(***************************************************************************)
\* the values of type uint64_t and of type aria_u128_t
IsWord(w) == DOMAIN w = 1..8 /\ \A k \in 1..8 : w[k] \in 0..255

Is_aria_u128_t(x) ==
  /\ DOMAIN x = {"left", "right"}
  /\ IsWord(x.left)
  /\ IsWord(x.right)

\* A uint64_t shifted by n is defined for 0 <= n < 64 only; rol and ror
\* shift by cnt and by 64 - cnt.
RotationDefined(cnt) == cnt \in 0..63 /\ (64 - cnt) \in 0..63

\* rol with each half rotated on its own: the bits shifted out of a half
\* come back into the same half
rol_halves_apart(x, cnt) ==
  [left  |-> or64(shl64(x.left, cnt), shr64(x.left, 64 - cnt)),
   right |-> or64(shl64(x.right, cnt), shr64(x.right, 64 - cnt))]

rol(x, cnt) ==
  [left  |-> or64(shl64(x.left, cnt), shr64(x.right, 64 - cnt)),
   right |-> or64(shl64(x.right, cnt), shr64(x.left, 64 - cnt))]

ror(x, cnt) ==
  [right |-> or64(shr64(x.right, cnt), shl64(x.left, 64 - cnt)),
   left  |-> or64(shr64(x.left, cnt), shl64(x.right, 64 - cnt))]

xor(x, y) ==
  [left |-> xor64(x.left, y.left), right |-> xor64(x.right, y.right)]

(***************************************************************************)
(* The S-boxes.                                                            *)
(***************************************************************************)
SB1 ==
  <<
      99, 124, 119, 123, 242, 107, 111, 197,  48,   1, 103,  43, 254, 215, 171, 118,
     202, 130, 201, 125, 250,  89,  71, 240, 173, 212, 162, 175, 156, 164, 114, 192,
     183, 253, 147,  38,  54,  63, 247, 204,  52, 165, 229, 241, 113, 216,  49,  21,
       4, 199,  35, 195,  24, 150,   5, 154,   7,  18, 128, 226, 235,  39, 178, 117,
       9, 131,  44,  26,  27, 110,  90, 160,  82,  59, 214, 179,  41, 227,  47, 132,
      83, 209,   0, 237,  32, 252, 177,  91, 106, 203, 190,  57,  74,  76,  88, 207,
     208, 239, 170, 251,  67,  77,  51, 133,  69, 249,   2, 127,  80,  60, 159, 168,
      81, 163,  64, 143, 146, 157,  56, 245, 188, 182, 218,  33,  16, 255, 243, 210,
     205,  12,  19, 236,  95, 151,  68,  23, 196, 167, 126,  61, 100,  93,  25, 115,
      96, 129,  79, 220,  34,  42, 144, 136,  70, 238, 184,  20, 222,  94,  11, 219,
     224,  50,  58,  10,  73,   6,  36,  92, 194, 211, 172,  98, 145, 149, 228, 121,
     231, 200,  55, 109, 141, 213,  78, 169, 108,  86, 244, 234, 101, 122, 174,   8,
     186, 120,  37,  46,  28, 166, 180, 198, 232, 221, 116,  31,  75, 189, 139, 138,
     112,  62, 181, 102,  72,   3, 246,  14,  97,  53,  87, 185, 134, 193,  29, 158,
     225, 248, 152,  17, 105, 217, 142, 148, 155,  30, 135, 233, 206,  85,  40, 223,
     140, 161, 137,  13, 191, 230,  66, 104,  65, 153,  45,  15, 176,  84, 187,  22
  >>

SB2 ==
  <<
     226,  78,  84, 252, 148, 194,  74, 204,  98,  13, 106,  70,  60,  77, 139, 209,
      94, 250, 100, 203, 180, 151, 190,  43, 188, 119,  46,   3, 211,  25,  89, 193,
      29,   6,  65, 107,  85, 240, 153, 105, 234, 156,  24, 174,  99, 223, 231, 187,
       0, 115, 102, 251, 150,  76, 133, 228,  58,   9,  69, 170,  15, 238,  16, 235,
      45, 127, 244,  41, 172, 207, 173, 145, 141, 120, 200, 149, 249,  47, 206, 205,
       8, 122, 136,  56,  92, 131,  42,  40,  71, 219, 184, 199, 147, 164,  18,  83,
     255, 135,  14,  49,  54,  33,  88,  72,   1, 142,  55, 116,  50, 202, 233, 177,
     183, 171,  12, 215, 196,  86,  66,  38,   7, 152,  96, 217, 182, 185,  17,  64,
     236,  32, 140, 189, 160, 201, 132,   4,  73,  35, 241,  79,  80,  31,  19, 220,
     216, 192, 158,  87, 227, 195, 123, 101,  59,   2, 143,  62, 232,  37, 146, 229,
      21, 221, 253,  23, 169, 191, 212, 154, 126, 197,  57, 103, 254, 118, 157,  67,
     167, 225, 208, 245, 104, 242,  27,  52, 112,   5, 163, 138, 213, 121, 134, 168,
      48, 198,  81,  75,  30, 166,  39, 246,  53, 210, 110,  36,  22, 130,  95, 218,
     230, 117, 162, 239,  44, 178,  28, 159,  93, 111, 128,  10, 114,  68, 155, 108,
     144,  11,  91,  51, 125,  90,  82, 243,  97, 161, 247, 176, 214,  63, 124, 109,
     237,  20, 224, 165,  61,  34, 179, 248, 137, 222, 113,  26, 175, 186, 181, 129
  >>

\* SB3 with its first two entries in each other's place
SB3_swapped ==
  <<
        9,  82, 106, 213,  48,  54, 165,  56, 191,  64, 163, 158, 129, 243, 215, 251,
      124, 227,  57, 130, 155,  47, 255, 135,  52, 142,  67,  68, 196, 222, 233, 203,
       84, 123, 148,  50, 166, 194,  35,  61, 238,  76, 149,  11,  66, 250, 195,  78,
        8,  46, 161, 102,  40, 217,  36, 178, 118,  91, 162,  73, 109, 139, 209,  37,
      114, 248, 246, 100, 134, 104, 152,  22, 212, 164,  92, 204,  93, 101, 182, 146,
      108, 112,  72,  80, 253, 237, 185, 218,  94,  21,  70,  87, 167, 141, 157, 132,
      144, 216, 171,   0, 140, 188, 211,  10, 247, 228,  88,   5, 184, 179,  69,   6,
      208,  44,  30, 143, 202,  63,  15,   2, 193, 175, 189,   3,   1,  19, 138, 107,
       58, 145,  17,  65,  79, 103, 220, 234, 151, 242, 207, 206, 240, 180, 230, 115,
      150, 172, 116,  34, 231, 173,  53, 133, 226, 249,  55, 232,  28, 117, 223, 110,
       71, 241,  26, 113,  29,  41, 197, 137, 111, 183,  98,  14, 170,  24, 190,  27,
      252,  86,  62,  75, 198, 210, 121,  32, 154, 219, 192, 254, 120, 205,  90, 244,
       31, 221, 168,  51, 136,   7, 199,  49, 177,  18,  16,  89,  39, 128, 236,  95,
       96,  81, 127, 169,  25, 181,  74,  13,  45, 229, 122, 159, 147, 201, 156, 239,
      160, 224,  59,  77, 174,  42, 245, 176, 200, 235, 187,  60, 131,  83, 153,  97,
       23,  43,   4, 126, 186, 119, 214,  38, 225, 105,  20,  99,  85,  33,  12, 125
  >>

SB3 ==
  <<
      82,   9, 106, 213,  48,  54, 165,  56, 191,  64, 163, 158, 129, 243, 215, 251,
     124, 227,  57, 130, 155,  47, 255, 135,  52, 142,  67,  68, 196, 222, 233, 203,
      84, 123, 148,  50, 166, 194,  35,  61, 238,  76, 149,  11,  66, 250, 195,  78,
       8,  46, 161, 102,  40, 217,  36, 178, 118,  91, 162,  73, 109, 139, 209,  37,
     114, 248, 246, 100, 134, 104, 152,  22, 212, 164,  92, 204,  93, 101, 182, 146,
     108, 112,  72,  80, 253, 237, 185, 218,  94,  21,  70,  87, 167, 141, 157, 132,
     144, 216, 171,   0, 140, 188, 211,  10, 247, 228,  88,   5, 184, 179,  69,   6,
     208,  44,  30, 143, 202,  63,  15,   2, 193, 175, 189,   3,   1,  19, 138, 107,
      58, 145,  17,  65,  79, 103, 220, 234, 151, 242, 207, 206, 240, 180, 230, 115,
     150, 172, 116,  34, 231, 173,  53, 133, 226, 249,  55, 232,  28, 117, 223, 110,
      71, 241,  26, 113,  29,  41, 197, 137, 111, 183,  98,  14, 170,  24, 190,  27,
     252,  86,  62,  75, 198, 210, 121,  32, 154, 219, 192, 254, 120, 205,  90, 244,
      31, 221, 168,  51, 136,   7, 199,  49, 177,  18,  16,  89,  39, 128, 236,  95,
      96,  81, 127, 169,  25, 181,  74,  13,  45, 229, 122, 159, 147, 201, 156, 239,
     160, 224,  59,  77, 174,  42, 245, 176, 200, 235, 187,  60, 131,  83, 153,  97,
      23,  43,   4, 126, 186, 119, 214,  38, 225, 105,  20,  99,  85,  33,  12, 125
  >>

SB4 ==
  <<
      48, 104, 153,  27, 135, 185,  33, 120,  80,  57, 219, 225, 114,   9,  98,  60,
      62, 126,  94, 142, 241, 160, 204, 163,  42,  29, 251, 182, 214,  32, 196, 141,
     129, 101, 245, 137, 203, 157, 119, 198,  87,  67,  86,  23, 212,  64,  26,  77,
     192,  99, 108, 227, 183, 200, 100, 106,  83, 170,  56, 152,  12, 244, 155, 237,
     127,  34, 118, 175, 221,  58,  11,  88, 103, 136,   6, 195,  53,  13,   1, 139,
     140, 194, 230,  95,   2,  36, 117, 147, 102,  30, 229, 226,  84, 216,  16, 206,
     122, 232,   8,  44,  18, 151,  50, 171, 180,  39,  10,  35, 223, 239, 202, 217,
     184, 250, 220,  49, 107, 209, 173,  25,  73, 189,  81, 150, 238, 228, 168,  65,
     218, 255, 205,  85, 134,  54, 190,  97,  82, 248, 187,  14, 130,  72, 105, 154,
     224,  71, 158,  92,   4,  75,  52,  21, 121,  38, 167, 222,  41, 174, 146, 215,
     132, 233, 210, 186,  93, 243, 197, 176, 191, 164,  59, 113,  68,  70,  43, 252,
     235, 111, 213, 246,  20, 254, 124, 112,  90, 125, 253,  47,  24, 131,  22, 165,
     145,  31,   5, 149, 116, 169, 193,  91,  74, 133, 109,  19,   7,  79,  78,  69,
     178,  15, 201,  28, 166, 188, 236, 115, 144, 123, 207,  89, 143, 161, 249,  45,
     242, 177,   0, 148,  55, 159, 208,  46, 156, 110,  40,  63, 128, 240,  61, 211,
      37, 138, 181, 231,  66, 179, 199, 234, 247,  76,  17,  51,   3, 162, 172,  96
  >>

(***************************************************************************)
(* The byte selectors x0 .. x15: uint64_t expressions of the block x.      *)
(***************************************************************************)
x0(x)  == shr64(x.left, 56)
\* x1 without its mask: the selector keeps the byte to its left
x1_unmasked(x) == shr64(x.left, 48)

x1(x)  == and64(shr64(x.left, 48), Mask_ff)
x2(x)  == and64(shr64(x.left, 40), Mask_ff)
x3(x)  == and64(shr64(x.left, 32), Mask_ff)
x4(x)  == and64(shr64(x.left, 24), Mask_ff)

\* x5 with the shift of x4
x5_shift_of_x4(x) == and64(shr64(x.left, 24), Mask_ff)

x5(x)  == and64(shr64(x.left, 16), Mask_ff)
x6(x)  == and64(shr64(x.left, 8), Mask_ff)
x7(x)  == and64(x.left, Mask_ff)
x8(x)  == shr64(x.right, 56)
x9(x)  == and64(shr64(x.right, 48), Mask_ff)
x10(x) == and64(shr64(x.right, 40), Mask_ff)
x11(x) == and64(shr64(x.right, 32), Mask_ff)
x12(x) == and64(shr64(x.right, 24), Mask_ff)
\* x13 with the shift of x12
x13_shift_of_x12(x) == and64(shr64(x.right, 24), Mask_ff)

x13(x) == and64(shr64(x.right, 16), Mask_ff)
x14(x) == and64(shr64(x.right, 8), Mask_ff)
x15(x) == and64(x.right, Mask_ff)

\* the selectors in position order
Selectors(x) ==
  <<x0(x), x1(x), x2(x), x3(x), x4(x), x5(x), x6(x), x7(x),
    x8(x), x9(x), x10(x), x11(x), x12(x), x13(x), x14(x), x15(x)>>

\* The array subscript a uint64_t stands for: its value when it is below
\* 256, and 256 (past the end of every table) for every larger value.
Subscript(w) ==
  IF \A k \in 1..7 : w[k] = 0 THEN w[8] ELSE 256

\* T[w] for a 256-entry table T, 0-based as in the source.  A subscript
\* past the end of the table is undefined behaviour: the action that makes
\* such a lookup ends in the fault state and this value is never used.
Lookup(T, w) == IF Subscript(w) < 256 THEN T[Subscript(w) + 1] ELSE 0

\* the subscripts one substitution layer applies to its tables
SubscriptsOf(x) == {Subscript(Selectors(x)[p]) : p \in 1..16}

aria_SL1(x) ==
  [left |->
     or64(shl64(u64(Lookup(SB1, x0(x))), 56),
     or64(shl64(u64(Lookup(SB2, x1(x))), 48),
     or64(shl64(u64(Lookup(SB3, x2(x))), 40),
     or64(shl64(u64(Lookup(SB4, x3(x))), 32),
     or64(shl64(u64(Lookup(SB1, x4(x))), 24),
     or64(shl64(u64(Lookup(SB2, x5(x))), 16),
     or64(shl64(u64(Lookup(SB3, x6(x))), 8),
          u64(Lookup(SB4, x7(x)))))))))),
   right |->
     or64(shl64(u64(Lookup(SB1, x8(x))), 56),
     or64(shl64(u64(Lookup(SB2, x9(x))), 48),
     or64(shl64(u64(Lookup(SB3, x10(x))), 40),
     or64(shl64(u64(Lookup(SB4, x11(x))), 32),
     or64(shl64(u64(Lookup(SB1, x12(x))), 24),
     or64(shl64(u64(Lookup(SB2, x13(x))), 16),
     or64(shl64(u64(Lookup(SB3, x14(x))), 8),
          u64(Lookup(SB4, x15(x))))))))))]

\* aria_SL2 with the tables in the order of aria_SL1
aria_SL2_pattern_of_SL1(x) == aria_SL1(x)

aria_SL2(x) ==
  [left |->
     or64(shl64(u64(Lookup(SB3, x0(x))), 56),
     or64(shl64(u64(Lookup(SB4, x1(x))), 48),
     or64(shl64(u64(Lookup(SB1, x2(x))), 40),
     or64(shl64(u64(Lookup(SB2, x3(x))), 32),
     or64(shl64(u64(Lookup(SB3, x4(x))), 24),
     or64(shl64(u64(Lookup(SB4, x5(x))), 16),
     or64(shl64(u64(Lookup(SB1, x6(x))), 8),
          u64(Lookup(SB2, x7(x)))))))))),
   right |->
     or64(shl64(u64(Lookup(SB3, x8(x))), 56),
     or64(shl64(u64(Lookup(SB4, x9(x))), 48),
     or64(shl64(u64(Lookup(SB1, x10(x))), 40),
     or64(shl64(u64(Lookup(SB2, x11(x))), 32),
     or64(shl64(u64(Lookup(SB3, x12(x))), 24),
     or64(shl64(u64(Lookup(SB4, x13(x))), 16),
     or64(shl64(u64(Lookup(SB1, x14(x))), 8),
          u64(Lookup(SB2, x15(x))))))))))]

(***************************************************************************)
(* Round keys from W0 .. W3: entries 1 .. 17 of ek are written, entry 0    *)
(* keeps what it held.                                                     *)
(***************************************************************************)
\* cnt_of with 64 written for the first 61
cnt_of_64_for_61 ==
  <<19, 19, 19, 19, 31, 31, 31, 31, 64, 61, 61, 61, 31, 31, 31, 31, 19>>

\* the bit count of the rol or ror of each of the 17 lines of compute_ek
cnt_of ==
  <<19, 19, 19, 19, 31, 31, 31, 31, 61, 61, 61, 61, 31, 31, 31, 31, 19>>

compute_ek(W0, W1, W2, W3, ek) ==
  [ek EXCEPT
     ![1]  = xor(W0, ror(W1, cnt_of[1])),
     ![2]  = xor(W1, ror(W2, cnt_of[2])),
     ![3]  = xor(W2, ror(W3, cnt_of[3])),
     ![4]  = xor(ror(W0, cnt_of[4]), W3),
     ![5]  = xor(W0, ror(W1, cnt_of[5])),
     ![6]  = xor(W1, ror(W2, cnt_of[6])),
     ![7]  = xor(W2, ror(W3, cnt_of[7])),
     ![8]  = xor(ror(W0, cnt_of[8]), W3),
     ![9]  = xor(W0, rol(W1, cnt_of[9])),
     ![10] = xor(W1, rol(W2, cnt_of[10])),
     ![11] = xor(W2, rol(W3, cnt_of[11])),
     ![12] = xor(rol(W0, cnt_of[12]), W3),
     ![13] = xor(W0, rol(W1, cnt_of[13])),
     ![14] = xor(W1, rol(W2, cnt_of[14])),
     ![15] = xor(W2, rol(W3, cnt_of[15])),
     ![16] = xor(rol(W0, cnt_of[16]), W3),
     ![17] = xor(W0, rol(W1, cnt_of[17]))]

(***************************************************************************)
(* The round keys as the source documents them: the circular rotations     *)
(* <<< and >>> of a 128-bit string, and the formulas of ek1 .. ek17.       *)
(***************************************************************************)
\* bit p of the block x, p = 0 the leftmost
Bit(x, p) ==
  LET byte == IF p < 64 THEN x.left[(p \div 8) + 1]
              ELSE x.right[((p - 64) \div 8) + 1]
  IN (byte \div Pow2[8 - (p % 8)]) % 2

\* the block whose bit p is f[p]
FromBits(f) ==
  LET ByteAt(q) ==
        f[q] * 128 + f[q + 1] * 64 + f[q + 2] * 32 + f[q + 3] * 16
        + f[q + 4] * 8 + f[q + 5] * 4 + f[q + 6] * 2 + f[q + 7]
  IN [left  |-> [k \in 1..8 |-> ByteAt(8 * (k - 1))],
      right |-> [k \in 1..8 |-> ByteAt(64 + 8 * (k - 1))]]

\* x <<< n
RotateLeft(x, n) == FromBits([p \in 0..127 |-> Bit(x, (p + n) % 128)])

\* x >>> n
RotateRight(x, n) == FromBits([p \in 0..127 |-> Bit(x, (p + 128 - n) % 128)])

ek_reference(W0, W1, W2, W3) ==
  <<xor(W0, RotateRight(W1, 19)),
    xor(W1, RotateRight(W2, 19)),
    xor(W2, RotateRight(W3, 19)),
    xor(RotateRight(W0, 19), W3),
    xor(W0, RotateRight(W1, 31)),
    xor(W1, RotateRight(W2, 31)),
    xor(W2, RotateRight(W3, 31)),
    xor(RotateRight(W0, 31), W3),
    xor(W0, RotateLeft(W1, 61)),
    xor(W1, RotateLeft(W2, 61)),
    xor(W2, RotateLeft(W3, 61)),
    xor(RotateLeft(W0, 61), W3),
    xor(W0, RotateLeft(W1, 31)),
    xor(W1, RotateLeft(W2, 31)),
    xor(W2, RotateLeft(W3, 31)),
    xor(RotateLeft(W0, 31), W3),
    xor(W0, RotateLeft(W1, 19))>>

(***************************************************************************)
(* The diffusion layer in the direct form the source keeps under #if 0:    *)
(* the bytes x0 .. x15 that are xored into each of the bytes y0 .. y15.    *)
(***************************************************************************)
A_rows ==
  <<{3, 4, 6, 8, 9, 13, 14},
    {2, 5, 7, 8, 9, 12, 15},
    {1, 4, 6, 10, 11, 12, 15},
    {0, 5, 7, 10, 11, 13, 14},
    {0, 2, 5, 8, 11, 14, 15},
    {1, 3, 4, 9, 10, 14, 15},
    {0, 2, 7, 9, 10, 12, 13},
    {1, 3, 6, 8, 11, 12, 13},
    {0, 1, 4, 7, 10, 13, 15},
    {0, 1, 5, 6, 11, 12, 14},
    {2, 3, 5, 6, 8, 13, 15},
    {2, 3, 4, 7, 9, 12, 14},
    {1, 2, 6, 7, 9, 11, 12},
    {0, 3, 6, 7, 8, 10, 13},
    {0, 3, 4, 5, 9, 11, 14},
    {1, 2, 4, 5, 8, 10, 15}>>

\* the byte of the block x at position p, 0 the leftmost
ByteAt(x, p) == IF p < 8 THEN x.left[p + 1] ELSE x.right[p - 7]

\* the xor of the bytes of x at the positions of S
RECURSIVE XorBytes(_, _)
XorBytes(S, x) ==
  IF S = {} THEN 0
  ELSE LET p == CHOOSE q \in S : TRUE
       IN XorTab[ByteAt(x, p)][XorBytes(S \ {p}, x)]

(***************************************************************************)
(* The diffusion layer, in the compiled (#else) form with t0 .. t3.        *)
(***************************************************************************)
\* X is the sequence x0 .. x15 of the selectors of the block
A_of(X) ==
  LET x4w(a, b, c, d) == xor64(xor64(xor64(a, b), c), d)
      t0 == u64(u8(x4w(X[1], X[8], X[11], X[14])))
      t1 == u64(u8(x4w(X[2], X[7], X[12], X[13])))
      t2 == u64(u8(x4w(X[3], X[6], X[9], X[16])))
      t3 == u64(u8(x4w(X[4], X[5], X[10], X[15])))
  IN
  [left |->
     or64(shl64(x4w(t3, X[7], X[9], X[14]), 56),
     or64(shl64(x4w(t2, X[8], X[10], X[13]), 48),
     or64(shl64(x4w(t1, X[5], X[11], X[16]), 40),
     or64(shl64(x4w(t0, X[6], X[12], X[15]), 32),
     or64(shl64(x4w(X[1], t2, X[12], X[15]), 24),
     or64(shl64(x4w(X[2], t3, X[11], X[16]), 16),
     or64(shl64(x4w(t0, X[3], X[10], X[13]), 8),
          x4w(t1, X[4], X[9], X[14])))))))),
   right |->
     or64(shl64(x4w(t0, X[2], X[5], X[16]), 56),
     or64(shl64(x4w(X[1], t1, X[6], X[15]), 48),
     or64(shl64(x4w(t2, X[4], X[7], X[14]), 40),
     or64(shl64(x4w(X[3], t3, X[8], X[13]), 32),
     or64(shl64(x4w(t1, X[3], X[8], X[10]), 24),
     or64(shl64(x4w(t0, X[4], X[7], X[9]), 16),
     or64(shl64(x4w(X[1], t3, X[6], X[12]), 8),
          x4w(X[2], t2, X[5], X[11]))))))))]

aria_A(x) == Bind(Selectors(x), A_of)

\* aria_FO with the substitution layer of aria_FE
aria_FO_with_SL2(d, rk) ==
  Bind(xor(d, rk), LAMBDA y : Bind(aria_SL2(y), aria_A))

\* return aria_A(aria_SL1(xor(d, rk))), each value computed once
aria_FO(d, rk) ==
  Bind(xor(d, rk), LAMBDA y : Bind(aria_SL1(y), aria_A))

\* aria_FE with the substitution layer of aria_FO
aria_FE_with_SL1(d, rk) ==
  Bind(xor(d, rk), LAMBDA y : Bind(aria_SL1(y), aria_A))

\* return aria_A(aria_SL2(xor(d, rk))), each value computed once
aria_FE(d, rk) ==
  Bind(xor(d, rk), LAMBDA y : Bind(aria_SL2(y), aria_A))

(***************************************************************************)
(* The key schedule constants.                                             *)
(***************************************************************************)
C1 ==
  [left  |-> <<81, 124, 193, 183, 39, 34, 10, 148>>,
   right |-> <<254, 19, 171, 232, 250, 154, 110, 224>>]

C2 ==
  [left  |-> <<109, 177, 74, 204, 158, 33, 200, 32>>,
   right |-> <<255, 40, 177, 213, 239, 93, 226, 176>>]

C3 ==
  [left  |-> <<219, 146, 55, 29, 33, 38, 233, 112>>,
   right |-> <<3, 36, 151, 117, 4, 232, 201, 14>>]

(***************************************************************************)
(* The W0 .. W3 of each of the six operations, each from its own lines.    *)
(***************************************************************************)
W_encrypt_128(Key) ==
  Bind(Key, LAMBDA W0 :
  Bind(aria_FO(W0, C1), LAMBDA W1 :
  Bind(xor(aria_FE(W1, C2), W0), LAMBDA W2 :
  Bind(xor(aria_FO(W2, C3), W1), LAMBDA W3 :
    <<W0, W1, W2, W3>>))))

W_encrypt_192(KL, KR) ==
  Bind(KL, LAMBDA W0 :
  Bind(xor(aria_FO(W0, C2), KR), LAMBDA W1 :
  Bind(xor(aria_FE(W1, C3), W0), LAMBDA W2 :
  Bind(xor(aria_FO(W2, C1), W1), LAMBDA W3 :
    <<W0, W1, W2, W3>>))))

W_encrypt_256(KL, KR) ==
  Bind(KL, LAMBDA W0 :
  Bind(xor(aria_FO(W0, C3), KR), LAMBDA W1 :
  Bind(xor(aria_FE(W1, C1), W0), LAMBDA W2 :
  Bind(xor(aria_FO(W2, C2), W1), LAMBDA W3 :
    <<W0, W1, W2, W3>>))))

W_decrypt_128(Key) ==
  Bind(Key, LAMBDA W0 :
  Bind(aria_FO(W0, C1), LAMBDA W1 :
  Bind(xor(aria_FE(W1, C2), W0), LAMBDA W2 :
  Bind(xor(aria_FO(W2, C3), W1), LAMBDA W3 :
    <<W0, W1, W2, W3>>))))

\* W_decrypt_192 with the constants in the order of the 128-bit operations
W_decrypt_192_constants_of_128(KL, KR) ==
  Bind(KL, LAMBDA W0 :
  Bind(xor(aria_FO(W0, C1), KR), LAMBDA W1 :
  Bind(xor(aria_FE(W1, C2), W0), LAMBDA W2 :
  Bind(xor(aria_FO(W2, C3), W1), LAMBDA W3 :
    <<W0, W1, W2, W3>>))))

W_decrypt_192(KL, KR) ==
  Bind(KL, LAMBDA W0 :
  Bind(xor(aria_FO(W0, C2), KR), LAMBDA W1 :
  Bind(xor(aria_FE(W1, C3), W0), LAMBDA W2 :
  Bind(xor(aria_FO(W2, C1), W1), LAMBDA W3 :
    <<W0, W1, W2, W3>>))))

W_decrypt_256(KL, KR) ==
  Bind(KL, LAMBDA W0 :
  Bind(xor(aria_FO(W0, C3), KR), LAMBDA W1 :
  Bind(xor(aria_FE(W1, C1), W0), LAMBDA W2 :
  Bind(xor(aria_FO(W2, C2), W1), LAMBDA W3 :
    <<W0, W1, W2, W3>>))))

\* the round constants in the order each operation feeds them to FO, FE, FO
CK_of ==
  [aria_encrypt_128 |-> <<C1, C2, C3>>,
   aria_encrypt_192 |-> <<C2, C3, C1>>,
   aria_encrypt_256 |-> <<C3, C1, C2>>,
   aria_decrypt_128 |-> <<C1, C2, C3>>,
   aria_decrypt_192 |-> <<C2, C3, C1>>,
   aria_decrypt_256 |-> <<C3, C1, C2>>]

\* rounds_of with the 128-bit literal left in aria_encrypt_192
rounds_of_192_as_128 ==
  [aria_encrypt_128 |-> 12, aria_encrypt_192 |-> 12, aria_encrypt_256 |-> 16,
   aria_decrypt_128 |-> 12, aria_decrypt_192 |-> 14, aria_decrypt_256 |-> 16]

\* the rounds argument each operation passes to aria_crypt
rounds_of ==
  [aria_encrypt_128 |-> 12, aria_encrypt_192 |-> 14, aria_encrypt_256 |-> 16,
   aria_decrypt_128 |-> 12, aria_decrypt_192 |-> 14, aria_decrypt_256 |-> 16]

\* dk_of with the literals of aria_decrypt_128 left in aria_decrypt_192
dk_of_192_as_128 ==
  [aria_decrypt_128 |-> [last |-> 13, j0 |-> 12, mid |-> 7],
   aria_decrypt_192 |-> [last |-> 13, j0 |-> 12, mid |-> 7],
   aria_decrypt_256 |-> [last |-> 17, j0 |-> 16, mid |-> 9]]

\* dk_of with j starting one below the literal of the source: index 2 paired
\* with index rounds - 1
dk_of_j0_one_less ==
  [aria_decrypt_128 |-> [last |-> 13, j0 |-> 11, mid |-> 7],
   aria_decrypt_192 |-> [last |-> 15, j0 |-> 13, mid |-> 8],
   aria_decrypt_256 |-> [last |-> 17, j0 |-> 15, mid |-> 9]]

\* the literals of each decryption key derivation: the index swapped with
\* index 1, the start of j, and the middle index
dk_of ==
  [aria_decrypt_128 |-> [last |-> 13, j0 |-> 12, mid |-> 7],
   aria_decrypt_192 |-> [last |-> 15, j0 |-> 14, mid |-> 8],
   aria_decrypt_256 |-> [last |-> 17, j0 |-> 16, mid |-> 9]]

Encrypts == {"aria_encrypt_128", "aria_encrypt_192", "aria_encrypt_256"}

Decrypts == {"aria_decrypt_128", "aria_decrypt_192", "aria_decrypt_256"}

\* the decrypt operation main pairs with each encrypt operation
decrypt_of ==
  [aria_encrypt_128 |-> "aria_decrypt_128",
   aria_encrypt_192 |-> "aria_decrypt_192",
   aria_encrypt_256 |-> "aria_decrypt_256"]

(***************************************************************************)
(* The steps of the decryption key derivation, on the array ek.            *)
(***************************************************************************)
\* dk_swap_ends without ek[0] = ek[last]: ek[1] gets what ek[0] held
dk_swap_ends_no_temp(ek, last) ==
  Bind([ek EXCEPT ![last] = ek[1]], LAMBDA e2 :
    [e2 EXCEPT ![1] = e2[0]])

\* ek[0] = ek[last]; ek[last] = ek[1]; ek[1] = ek[0];
dk_swap_ends(ek, last) ==
  Bind([ek EXCEPT ![0] = ek[last]], LAMBDA e1 :
  Bind([e1 EXCEPT ![last] = e1[1]], LAMBDA e2 :
    [e2 EXCEPT ![1] = e2[0]]))

\* dk_loop_body with ek[i] = ek[0]: the second aria_A left out
dk_loop_body_one_A(ek, i, j) ==
  Bind([ek EXCEPT ![0] = ek[j]], LAMBDA e1 :
  Bind([e1 EXCEPT ![j] = aria_A(e1[i])], LAMBDA e2 :
    [e2 EXCEPT ![i] = e2[0]]))

\* dk_loop_body without the copy in ek[0]: ek[i] is computed from the ek[j]
\* that the statement before has overwritten
dk_loop_body_lost_temp(ek, i, j) ==
  Bind([ek EXCEPT ![j] = aria_A(ek[i])], LAMBDA e2 :
    [e2 EXCEPT ![i] = aria_A(e2[j])])

\* ek[0] = ek[j]; ek[j] = aria_A(ek[i]); ek[i] = aria_A(ek[0]);
dk_loop_body(ek, i, j) ==
  Bind([ek EXCEPT ![0] = ek[j]], LAMBDA e1 :
  Bind([e1 EXCEPT ![j] = aria_A(e1[i])], LAMBDA e2 :
    [e2 EXCEPT ![i] = aria_A(e2[0])]))

\* dk_middle left out
dk_middle_left_out(ek, mid) == ek

\* ek[mid] = aria_A(ek[mid]);
dk_middle(ek, mid) == [ek EXCEPT ![mid] = aria_A(ek[mid])]

(***************************************************************************)
(* The inputs the operations are called with.                              *)
(***************************************************************************)
Block(l, r) == [left |-> l, right |-> r]

KAT_KeyLeft == Block(<<0, 1, 2, 3, 4, 5, 6, 7>>, <<8, 9, 10, 11, 12, 13, 14, 15>>)

KAT_KeyRight_192 == Block(<<16, 17, 18, 19, 20, 21, 22, 23>>, <<0, 0, 0, 0, 0, 0, 0, 0>>)

KAT_KeyRight_256 ==
  Block(<<16, 17, 18, 19, 20, 21, 22, 23>>, <<24, 25, 26, 27, 28, 29, 30, 31>>)

KAT_Plaintext ==
  Block(<<0, 17, 34, 51, 68, 85, 102, 119>>, <<136, 153, 170, 187, 204, 221, 238, 255>>)

KAT_Ciphertext_128 ==
  Block(<<215, 24, 251, 214, 171, 100, 76, 115>>, <<157, 169, 95, 59, 230, 69, 23, 120>>)

KAT_Ciphertext_192 ==
  Block(<<38, 68, 156, 24, 5, 219, 231, 170>>, <<37, 164, 104, 206, 38, 58, 158, 121>>)

KAT_Ciphertext_256 ==
  Block(<<249, 43, 215, 199, 159, 183, 46, 47>>, <<43, 143, 128, 193, 151, 45, 36, 252>>)

(***************************************************************************)
(* The example data documented for the 128-bit key 000102...0e0f and the   *)
(* plaintext 00112233...eeff.                                              *)
(***************************************************************************)
\* the round key generators W0 .. W3
A1_W ==
  <<Block(<<0, 1, 2, 3, 4, 5, 6, 7>>,
          <<8, 9, 10, 11, 12, 13, 14, 15>>),
    Block(<<42, 251, 234, 116, 30, 23, 70, 221>>,
          <<85, 198, 59, 161, 175, 206, 160, 165>>),
    Block(<<124, 133, 120, 1, 139, 177, 39, 224>>,
          <<45, 254, 78, 120, 194, 136, 227, 60>>),
    Block(<<103, 133, 181, 43, 116, 218, 70, 191>>,
          <<24, 16, 84, 8, 39, 99, 255, 109>>)>>

\* the encryption round keys e1 .. e13
A1_e ==
  <<Block(<<212, 21, 167, 92, 121, 75, 133, 197>>,
          <<224, 210, 160, 179, 203, 121, 59, 246>>),
    Block(<<54, 156, 101, 228, 177, 23, 119, 171>>,
          <<113, 58, 62, 30, 102, 1, 184, 244>>),
    Block(<<3, 104, 212, 241, 61, 20, 73, 123>>,
          <<101, 41, 173, 122, 200, 9, 231, 208>>),
    Block(<<198, 68, 85, 43, 84, 154, 38, 63>>,
          <<184, 208, 181, 9, 6, 34, 158, 236>>),
    Block(<<95, 156, 67, 73, 81, 242, 210, 239>>,
          <<52, 39, 135, 177, 167, 129, 121, 76>>),
    Block(<<175, 234, 44, 12, 231, 29, 182, 222>>,
          <<66, 164, 116, 97, 244, 50, 60, 84>>),
    Block(<<50, 66, 134, 219, 68, 186, 77, 182>>,
          <<196, 74, 195, 6, 242, 168, 75, 44>>),
    Block(<<127, 159, 169, 53, 116, 216, 66, 185>>,
          <<16, 26, 88, 6, 55, 113, 235, 123>>),
    Block(<<170, 185, 197, 119, 49, 252, 210, 19>>,
          <<173, 86, 119, 69, 143, 207, 230, 212>>),
    Block(<<47, 68, 35, 187, 6, 70, 90, 186>>,
          <<218, 86, 148, 161, 158, 184, 132, 89>>),
    Block(<<159, 135, 114, 128, 143, 93, 88, 13>>,
          <<129, 14, 248, 221, 172, 19, 171, 235>>),
    Block(<<134, 132, 148, 106, 21, 91, 231, 126>>,
          <<248, 16, 116, 72, 71, 227, 95, 173>>),
    Block(<<15, 10, 161, 109, 174, 230, 27, 215>>,
          <<223, 238, 90, 89, 153, 112, 251, 53>>)>>

\* the intermediate round values P1 .. P11
A1_P ==
  <<Block(<<127, 199, 241, 43, 239, 208, 160, 121>>,
          <<29, 232, 127, 169, 107, 70, 159, 82>>),
    Block(<<172, 141, 225, 126, 73, 247, 197, 17>>,
          <<118, 24, 153, 49, 98, 177, 137, 233>>),
    Block(<<195, 232, 213, 158, 194, 230, 45, 82>>,
          <<73, 202, 39, 65, 101, 60, 183, 221>>),
    Block(<<93, 74, 235, 177, 101, 225, 65, 255>>,
          <<117, 159, 102, 158, 30, 133, 204, 69>>),
    Block(<<120, 6, 228, 105, 246, 136, 116, 197>>,
          <<0, 75, 95, 74, 4, 107, 188, 250>>),
    Block(<<17, 15, 147, 201, 166, 48, 205, 213>>,
          <<31, 151, 210, 32, 36, 19, 52, 90>>),
    Block(<<224, 84, 66, 142, 240, 136, 254, 249>>,
          <<121, 40, 36, 28, 211, 190, 73, 158>>),
    Block(<<87, 52, 243, 142, 161, 202, 61, 221>>,
          <<16, 46, 113, 249, 94, 29, 95, 151>>),
    Block(<<73, 3, 50, 91, 227, 229, 0, 204>>,
          <<205, 82, 251, 164, 53, 74, 57, 174>>),
    Block(<<203, 140, 80, 142, 44, 79, 135, 136>>,
          <<6, 57, 220, 137, 109, 37, 236, 157>>),
    Block(<<231, 224, 210, 69, 126, 215, 61, 35>>,
          <<212, 129, 66, 64, 149, 175, 220, 160>>)>>

\* a key with every bit set: every shift and rotation carries bits across
\* each byte and word boundary
AllOnes ==
  Block(<<255, 255, 255, 255, 255, 255, 255, 255>>,
        <<255, 255, 255, 255, 255, 255, 255, 255>>)

Zero128 == Block(<<0, 0, 0, 0, 0, 0, 0, 0>>, <<0, 0, 0, 0, 0, 0, 0, 0>>)

\* what the uninitialised array ek[18] of an operation may hold on entry
StackGarbage == {Zero128, AllOnes}

\* no aria_u128_t: an argument the operation does not have, a value not yet
\* computed
NoBlock == [left |-> <<>>, right |-> <<>>]

\* no array: no operation is running
NoFrame == <<>>

(***************************************************************************)
(* The state.                                                              *)
(***************************************************************************)
VARIABLES
  pc,         \* where the running operation is: "idle", "dk_swap", "dk_loop",
              \* "crypt", "crypt_loop", "done", "ks_done" or "fault"; or what
              \* has been applied to arg
  fn,         \* the operation called
  KeyLeft,    \* its arguments
  KeyRight,
  Text,
  W,          \* <<W0, W1, W2, W3>>
  ek,         \* the array ek[18] of the operation
  rounds,     \* aria_crypt's parameter
  P,          \* aria_crypt's P
  i,          \* the loop variables
  j,
  result,     \* the value returned
  fault,      \* the undefined behaviour reached, or "none"
  reads,      \* the subscripts of ek aria_crypt has read, in order
  trace,      \* the values P has taken, in order
  steps,      \* the steps taken since the call
  Plaintext,  \* main's Plaintext while it decrypts what it encrypted
  keysched,   \* what aria_init_key_schedule returned and stored
  calls,      \* how many times aria_crypt was called with the array ek
  ref,        \* a call that returned, and what it returned
  arg,        \* the argument a function is applied to on its own
  val         \* what it returned

vars ==
  <<pc, fn, KeyLeft, KeyRight, Text, W, ek, rounds, P, i, j, result, fault,
    reads, trace, steps, Plaintext, keysched, calls, ref, arg, val>>

NoSchedule == [key_size_in_bits |-> 0, err |-> "none", sched |-> <<>>]

NoRef == [fn |-> "none"]

\* no function is applied on its own
NoArg == <<>>

\* no operation is running
NoCall ==
  /\ fn = "none"
  /\ KeyLeft = NoBlock
  /\ KeyRight = NoBlock
  /\ Text = NoBlock
  /\ W = <<>>
  /\ ek = NoFrame
  /\ rounds = 0
  /\ P = NoBlock
  /\ i = 0
  /\ j = 0
  /\ result = NoBlock
  /\ fault = "none"
  /\ reads = <<>>
  /\ trace = <<>>
  /\ steps = 0
  /\ Plaintext = NoBlock
  /\ keysched = NoSchedule
  /\ calls = 0

Init ==
  /\ pc = "idle"
  /\ NoCall
  /\ ref = NoRef
  /\ arg = NoArg
  /\ val = NoArg

\* the S-box subscripts of the three rounds that compute W1, W2, W3
FeistelSubscripts(Ws, CK) ==
  SubscriptsOf(xor(Ws[1], CK[1])) \cup SubscriptsOf(xor(Ws[2], CK[2]))
    \cup SubscriptsOf(xor(Ws[3], CK[3]))

InTable(S) == S \subseteq 0..255

InArray(S) == S \subseteq 0..17

\* undefined behaviour: nothing is known of what the operation does next
Fault(kind) ==
  /\ pc' = "fault"
  /\ fault' = kind
  /\ steps' = steps + 1
  /\ UNCHANGED <<fn, KeyLeft, KeyRight, Text, W, ek, rounds, P, i, j, result,
                 reads, trace, Plaintext, keysched, calls, ref, arg, val>>

\* The body of an operation up to and including compute_ek: name is the
\* operation, Wexpr its W0 .. W3, stack what its array ek holds on entry,
\* next where it goes on.
Enter(name, KL, KR, text, Wexpr, stack, next) ==
  /\ fn' = name
  /\ KeyLeft' = KL
  /\ KeyRight' = KR
  /\ Text' = text
  /\ rounds' = 0
  /\ P' = NoBlock
  /\ i' = 0
  /\ j' = 0
  /\ result' = NoBlock
  /\ reads' = <<>>
  /\ trace' = <<>>
  /\ steps' = 1
  /\ keysched' = NoSchedule
  /\ calls' = 0
  /\ \E Ws \in {Wexpr} :
       IF ~InTable(FeistelSubscripts(Ws, CK_of[name]))
       THEN /\ W' = <<>>
            /\ ek' = stack
            /\ pc' = "fault"
            /\ fault' = "sbox"
       ELSE IF ~(\A k \in 1..17 : RotationDefined(cnt_of[k]))
       THEN /\ W' = Ws
            /\ ek' = stack
            /\ pc' = "fault"
            /\ fault' = "shift"
       ELSE /\ W' = Ws
            /\ ek' = compute_ek(Ws[1], Ws[2], Ws[3], Ws[4], stack)
            /\ pc' = next
            /\ fault' = "none"

aria_encrypt_128(Key, Plaintext_, stack) ==
  Enter("aria_encrypt_128", Key, NoBlock, Plaintext_,
        W_encrypt_128(Key), stack, "crypt")

aria_encrypt_192(KL, KR, Plaintext_, stack) ==
  Enter("aria_encrypt_192", KL, KR, Plaintext_,
        W_encrypt_192(KL, KR), stack, "crypt")

aria_encrypt_256(KL, KR, Plaintext_, stack) ==
  Enter("aria_encrypt_256", KL, KR, Plaintext_,
        W_encrypt_256(KL, KR), stack, "crypt")

aria_decrypt_128(Key, Ciphertext, stack) ==
  Enter("aria_decrypt_128", Key, NoBlock, Ciphertext,
        W_decrypt_128(Key), stack, "dk_swap")

aria_decrypt_192(KL, KR, Ciphertext, stack) ==
  Enter("aria_decrypt_192", KL, KR, Ciphertext,
        W_decrypt_192(KL, KR), stack, "dk_swap")

aria_decrypt_256(KL, KR, Ciphertext, stack) ==
  Enter("aria_decrypt_256", KL, KR, Ciphertext,
        W_decrypt_256(KL, KR), stack, "dk_swap")

(***************************************************************************)
(* The decryption key derivation of aria_decrypt_128 / _192 / _256.        *)
(***************************************************************************)
DkSwapEnds ==
  /\ pc = "dk_swap"
  /\ LET last == dk_of[fn].last
     IN IF InArray({0, 1, last})
        THEN /\ ek' = dk_swap_ends(ek, last)
             /\ i' = 2
             /\ j' = dk_of[fn].j0
             /\ pc' = "dk_loop"
             /\ steps' = steps + 1
             /\ UNCHANGED <<fn, KeyLeft, KeyRight, Text, W, rounds, P, result,
                            fault, reads, trace, Plaintext, keysched, calls, ref, arg, val>>
        ELSE Fault("ek")

DkLoop ==
  /\ pc = "dk_loop"
  /\ i < j
  /\ IF InArray({0, i, j})
     THEN /\ ek' = dk_loop_body(ek, i, j)
          /\ i' = i + 1
          /\ j' = j - 1
          /\ steps' = steps + 1
          /\ UNCHANGED <<pc, fn, KeyLeft, KeyRight, Text, W, rounds, P, result,
                         fault, reads, trace, Plaintext, keysched, calls, ref, arg, val>>
     ELSE Fault("ek")

DkMiddle ==
  /\ pc = "dk_loop"
  /\ ~(i < j)
  /\ LET mid == dk_of[fn].mid
     IN IF InArray({mid})
        THEN /\ ek' = dk_middle(ek, mid)
             /\ pc' = "crypt"
             /\ steps' = steps + 1
             /\ UNCHANGED <<fn, KeyLeft, KeyRight, Text, W, rounds, P, i, j,
                            result, fault, reads, trace, Plaintext, keysched, calls,
                            ref, arg, val>>
        ELSE Fault("ek")

(***************************************************************************)
(* aria_crypt (rounds, ek, Plaintext), called with the operation's rounds  *)
(* literal, its array ek and its text argument.                            *)
(***************************************************************************)
\* aria_u128_t P = aria_FO(Plaintext, ek[1]);  and  int i = 2
CryptRound1 ==
  /\ pc = "crypt"
  /\ IF InTable(SubscriptsOf(xor(Text, ek[1])))
     THEN /\ rounds' = rounds_of[fn]
          /\ P' = aria_FO(Text, ek[1])
          /\ i' = 2
          /\ reads' = <<1>>
          /\ trace' = <<P'>>
          /\ pc' = "crypt_loop"
          /\ steps' = steps + 1
          /\ calls' = calls + 1
          /\ UNCHANGED <<fn, KeyLeft, KeyRight, Text, W, ek, j, result, fault,
                         Plaintext, keysched, ref, arg, val>>
     ELSE Fault("sbox")

\* loop_pass with the two round functions in the other order
loop_pass_FO_first(P_, rk1, rk2) ==
  Bind(aria_FO(P_, rk1), LAMBDA P1 :
  Bind(aria_FE(P1, rk2), LAMBDA P2 :
    [P1 |-> P1, P2 |-> P2,
     subscripts |-> SubscriptsOf(xor(P_, rk1))
                      \cup SubscriptsOf(xor(P1, rk2))]))

\* one pass of the loop body: P = aria_FE(P, ek[i++]); P = aria_FO(P, ek[i++]);
\* the two values P takes, and the S-box subscripts used
loop_pass(P_, rk1, rk2) ==
  Bind(aria_FE(P_, rk1), LAMBDA P1 :
  Bind(aria_FO(P1, rk2), LAMBDA P2 :
    [P1 |-> P1, P2 |-> P2,
     subscripts |-> SubscriptsOf(xor(P_, rk1))
                      \cup SubscriptsOf(xor(P1, rk2))]))

\* CryptLoop with the first i++ of the body missing:
\* P = aria_FE(P, ek[i]); P = aria_FO(P, ek[i++]);
CryptLoop_single_increment ==
  /\ pc = "crypt_loop"
  /\ i < rounds
  /\ IF ~InArray({i})
     THEN Fault("ek")
     ELSE \E pass \in {loop_pass(P, ek[i], ek[i])} :
            IF InTable(pass.subscripts)
            THEN /\ P' = pass.P2
                 /\ i' = i + 1
                 /\ reads' = reads \o <<i, i>>
                 /\ trace' = trace \o <<pass.P1, pass.P2>>
                 /\ steps' = steps + 1
                 /\ UNCHANGED <<pc, fn, KeyLeft, KeyRight, Text, W, ek,
                                rounds, j, result, fault, Plaintext, keysched, calls,
                                ref, arg, val>>
            ELSE Fault("sbox")

CryptLoop ==
  /\ pc = "crypt_loop"
  /\ i < rounds
  /\ IF ~InArray({i, i + 1})
     THEN Fault("ek")
     ELSE \E pass \in {loop_pass(P, ek[i], ek[i + 1])} :
            IF InTable(pass.subscripts)
            THEN /\ P' = pass.P2
                 /\ i' = i + 2
                 /\ reads' = reads \o <<i, i + 1>>
                 /\ trace' = trace \o <<pass.P1, pass.P2>>
                 /\ steps' = steps + 1
                 /\ UNCHANGED <<pc, fn, KeyLeft, KeyRight, Text, W, ek,
                                rounds, j, result, fault, Plaintext, keysched, calls,
                                ref, arg, val>>
            ELSE Fault("sbox")

\* CryptFinal with the array used as scratch space for the last round:
\* ek[rounds] = xor(P, ek[rounds]);
\* return xor(aria_SL2(ek[rounds]), ek[rounds + 1]);
CryptFinal_scratch_in_ek ==
  /\ pc = "crypt_loop"
  /\ ~(i < rounds)
  /\ IF ~InArray({rounds, rounds + 1})
     THEN Fault("ek")
     ELSE IF InTable(SubscriptsOf(xor(P, ek[rounds])))
          THEN /\ result' = xor(aria_SL2(xor(P, ek[rounds])), ek[rounds + 1])
               /\ ek' = [ek EXCEPT ![rounds] = xor(P, ek[rounds])]
               /\ reads' = reads \o <<rounds, rounds + 1>>
               /\ pc' = "done"
               /\ steps' = steps + 1
               /\ UNCHANGED <<fn, KeyLeft, KeyRight, Text, W, rounds, P,
                              i, j, fault, trace, Plaintext, keysched, calls,
                              ref, arg, val>>
          ELSE Fault("sbox")

\* return xor(aria_SL2(xor(P, ek[rounds])), ek[rounds + 1]);
CryptFinal ==
  /\ pc = "crypt_loop"
  /\ ~(i < rounds)
  /\ IF ~InArray({rounds, rounds + 1})
     THEN Fault("ek")
     ELSE IF InTable(SubscriptsOf(xor(P, ek[rounds])))
          THEN /\ result' = xor(aria_SL2(xor(P, ek[rounds])), ek[rounds + 1])
               /\ reads' = reads \o <<rounds, rounds + 1>>
               /\ pc' = "done"
               /\ steps' = steps + 1
               /\ UNCHANGED <<fn, KeyLeft, KeyRight, Text, W, ek, rounds, P,
                              i, j, fault, trace, Plaintext, keysched, calls, ref, arg, val>>
          ELSE Fault("sbox")

(***************************************************************************)
(* The callers: any of the six operations on any of the inputs, and main's *)
(* pair of an encryption and the decryption of its result.                 *)
(***************************************************************************)
\* the keys offered as KeyLeft, of which the first MaxKeys are used
KeyLeftChoices == <<KAT_KeyLeft, AllOnes, Zero128, KAT_Plaintext>>

MaxKeys == 2

KeyLefts ==
  {KeyLeftChoices[n] : n \in {m \in 1..Len(KeyLeftChoices) : m <= MaxKeys}}

KeyRights == {KAT_KeyRight_192, KAT_KeyRight_256}

Blocks ==
  {KAT_Plaintext, KAT_Ciphertext_128, KAT_Ciphertext_192, KAT_Ciphertext_256}

Stacks == {[k \in 0..17 |-> g] : g \in StackGarbage}

Call_encrypt_128 ==
  /\ pc = "idle"
  /\ \E k \in KeyLefts, t \in Blocks, s \in Stacks :
       aria_encrypt_128(k, t, s)
  /\ UNCHANGED <<Plaintext, ref, arg, val>>

Call_encrypt_192 ==
  /\ pc = "idle"
  /\ \E kl \in KeyLefts, kr \in KeyRights, t \in Blocks, s \in Stacks :
       aria_encrypt_192(kl, kr, t, s)
  /\ UNCHANGED <<Plaintext, ref, arg, val>>

Call_encrypt_256 ==
  /\ pc = "idle"
  /\ \E kl \in KeyLefts, kr \in KeyRights, t \in Blocks, s \in Stacks :
       aria_encrypt_256(kl, kr, t, s)
  /\ UNCHANGED <<Plaintext, ref, arg, val>>

Call_decrypt_128 ==
  /\ pc = "idle"
  /\ \E k \in KeyLefts, t \in Blocks, s \in Stacks :
       aria_decrypt_128(k, t, s)
  /\ UNCHANGED <<Plaintext, ref, arg, val>>

Call_decrypt_192 ==
  /\ pc = "idle"
  /\ \E kl \in KeyLefts, kr \in KeyRights, t \in Blocks, s \in Stacks :
       aria_decrypt_192(kl, kr, t, s)
  /\ UNCHANGED <<Plaintext, ref, arg, val>>

Call_decrypt_256 ==
  /\ pc = "idle"
  /\ \E kl \in KeyLefts, kr \in KeyRights, t \in Blocks, s \in Stacks :
       aria_decrypt_256(kl, kr, t, s)
  /\ UNCHANGED <<Plaintext, ref, arg, val>>

\* P = aria_decrypt_N(Key.., Ciphertext) with the Ciphertext just computed
\* by aria_encrypt_N from Plaintext under the same key; the array of the
\* decryption holds what the encryption left on the stack
RoundTrip ==
  /\ pc = "done"
  /\ fn \in Encrypts
  /\ Plaintext' = Text
  /\ CASE fn = "aria_encrypt_128" ->
            aria_decrypt_128(KeyLeft, result, ek)
       [] fn = "aria_encrypt_192" ->
            aria_decrypt_192(KeyLeft, KeyRight, result, ek)
       [] fn = "aria_encrypt_256" ->
            aria_decrypt_256(KeyLeft, KeyRight, result, ek)
  /\ UNCHANGED <<ref, arg, val>>

\* the operation has returned and its caller has used the result
Returned ==
  /\ pc' = "idle"
  /\ fn' = "none"
  /\ KeyLeft' = NoBlock
  /\ KeyRight' = NoBlock
  /\ Text' = NoBlock
  /\ W' = <<>>
  /\ ek' = NoFrame
  /\ rounds' = 0
  /\ P' = NoBlock
  /\ i' = 0
  /\ j' = 0
  /\ result' = NoBlock
  /\ fault' = "none"
  /\ reads' = <<>>
  /\ trace' = <<>>
  /\ steps' = 0
  /\ Plaintext' = NoBlock
  /\ keysched' = NoSchedule
  /\ calls' = 0

Return ==
  /\ pc \in {"done", "ks_done"}
  /\ Returned
  /\ UNCHANGED <<ref, arg, val>>

(***************************************************************************)
(* aria_init_key_schedule of aria.h, which aria.c does not define: the     *)
(* schedule is built by the steps of the six operations.                   *)
(***************************************************************************)
KeySizes == {0, 64, 128, 192, 256, 512}

Modes == {"ENCRYPT", "DECRYPT"}

encrypt_of_size ==
  [s \in {128, 192, 256} |->
     CASE s = 128 -> "aria_encrypt_128"
       [] s = 192 -> "aria_encrypt_192"
       [] s = 256 -> "aria_encrypt_256"]

\* for (int i = 2, j = 12; i < j; i++, j--) { ... } with i = a, j = b
RECURSIVE dk_loop(_, _, _)
dk_loop(e, a, b) ==
  IF a < b THEN dk_loop(dk_loop_body(e, a, b), a + 1, b - 1) ELSE e

\* the schedule of the round keys e for an operation of mode and size
build_schedule(e, mode, size) ==
  LET d == dk_of[decrypt_of[encrypt_of_size[size]]]
  IN [ek |-> IF mode = "ENCRYPT" THEN e
             ELSE dk_middle(dk_loop(dk_swap_ends(e, d.last), 2, d.j0), d.mid),
      mode |-> mode,
      rounds |-> rounds_of[encrypt_of_size[size]]]

\* aria_init_key_schedule that builds nothing for a size it does not know
\* but returns NO_ERROR
aria_init_key_schedule_no_error(KL, KR, mode, key_size_in_bits) ==
  /\ pc = "idle"
  /\ pc' = "ks_done"
  /\ IF key_size_in_bits \in {128, 192, 256}
     THEN \E Ws \in {CASE key_size_in_bits = 128 -> W_encrypt_128(KL)
                       [] key_size_in_bits = 192 -> W_encrypt_192(KL, KR)
                       [] key_size_in_bits = 256 -> W_encrypt_256(KL, KR)} :
          \E e \in {compute_ek(Ws[1], Ws[2], Ws[3], Ws[4],
                               [k \in 0..17 |-> Zero128])} :
            keysched' = [key_size_in_bits |-> key_size_in_bits,
                         err |-> "NO_ERROR",
                         sched |-> build_schedule(e, mode, key_size_in_bits)]
     ELSE keysched' = [key_size_in_bits |-> key_size_in_bits,
                       err |-> "NO_ERROR",
                       sched |-> <<>>]
  /\ UNCHANGED <<fn, KeyLeft, KeyRight, Text, W, ek, rounds, P, i, j, result,
                 fault, reads, trace, steps, Plaintext, calls, ref, arg, val>>

aria_init_key_schedule(KL, KR, mode, key_size_in_bits) ==
  /\ pc = "idle"
  /\ pc' = "ks_done"
  /\ IF key_size_in_bits \in {128, 192, 256}
     THEN \E Ws \in {CASE key_size_in_bits = 128 -> W_encrypt_128(KL)
                       [] key_size_in_bits = 192 -> W_encrypt_192(KL, KR)
                       [] key_size_in_bits = 256 -> W_encrypt_256(KL, KR)} :
          \E e \in {compute_ek(Ws[1], Ws[2], Ws[3], Ws[4],
                               [k \in 0..17 |-> Zero128])} :
            keysched' = [key_size_in_bits |-> key_size_in_bits,
                         err |-> "NO_ERROR",
                         sched |-> build_schedule(e, mode, key_size_in_bits)]
     ELSE keysched' = [key_size_in_bits |-> key_size_in_bits,
                       err |-> "KEY_SIZE_BAD",
                       sched |-> <<>>]
  /\ UNCHANGED <<fn, KeyLeft, KeyRight, Text, W, ek, rounds, P, i, j, result,
                 fault, reads, trace, steps, Plaintext, calls, ref, arg, val>>

InitKeySchedule ==
  \E kl \in KeyLefts, kr \in KeyRights, m \in Modes, s \in KeySizes :
    aria_init_key_schedule(kl, kr, m, s)

(***************************************************************************)
(* The specification.                                                      *)
(***************************************************************************)
Step ==
  DkSwapEnds \/ DkLoop \/ DkMiddle \/ CryptRound1 \/ CryptLoop \/ CryptFinal

Next ==
  \/ Call_encrypt_128
  \/ Call_encrypt_192
  \/ Call_encrypt_256
  \/ Call_decrypt_128
  \/ Call_decrypt_192
  \/ Call_decrypt_256
  \/ RoundTrip
  \/ Return
  \/ InitKeySchedule
  \/ DkSwapEnds
  \/ DkLoop
  \/ DkMiddle
  \/ CryptRound1
  \/ CryptLoop
  \/ CryptFinal

Spec == Init /\ [][Next]_vars

(***************************************************************************)
(* The functions applied on their own: aria_A twice to a block, aria_SL1   *)
(* and aria_SL2 one after the other, compute_ek to W0 .. W3, and a byte    *)
(* looked up in SB1 and then SB3, or in SB2 and then SB4.                  *)
(***************************************************************************)
\* the block whose only set bit is bit b of byte p (p = 0 is the leftmost)
UnitBlock(p, b) ==
  [left  |-> [k \in 1..8 |-> IF k = p + 1 THEN Pow2[b + 1] ELSE 0],
   right |-> [k \in 1..8 |-> IF k = p - 7 THEN Pow2[b + 1] ELSE 0]]

\* every block is the xor of blocks of UnitBlocks, and aria_A(xor(x, y)) is
\* xor(aria_A(x), aria_A(y))
UnitBlocks == {UnitBlock(p, b) : p \in 0..15, b \in 0..7}

\* the block whose byte at position p is b + 17 p (mod 256): over b, each
\* position takes each byte value, and no two positions hold the same byte
RampBlock(b) ==
  [left  |-> [k \in 1..8 |-> (b + 17 * (k - 1)) % 256],
   right |-> [k \in 1..8 |-> (b + 17 * (k + 7)) % 256]]

RampBlocks == {RampBlock(b) : b \in 0..255}

PureBlocks ==
  UnitBlocks \cup RampBlocks \cup Blocks
    \cup {AllOnes, Zero128, KAT_KeyLeft, C1, C2, C3}

\* W0 .. W3 with one bit set in one of them: compute_ek(W0 .. W3) is the xor
\* of its values on such arguments; and W0 .. W3 with many bits set
PureWs ==
  {[n \in 1..4 |-> IF n = slot THEN u ELSE Zero128] :
     slot \in 1..4, u \in UnitBlocks}
  \cup {W_encrypt_128(KAT_KeyLeft), <<AllOnes, C1, C2, C3>>,
        <<KAT_KeyLeft, KAT_Plaintext, C3, AllOnes>>}

\* the round keys compute_ek makes of the keys of main for an operation
KAT_ek(name) ==
  Bind(CASE name = "aria_decrypt_128" -> W_encrypt_128(KAT_KeyLeft)
         [] name = "aria_decrypt_192" ->
              W_encrypt_192(KAT_KeyLeft, KAT_KeyRight_192)
         [] name = "aria_decrypt_256" ->
              W_encrypt_256(KAT_KeyLeft, KAT_KeyRight_256),
       LAMBDA Ws : compute_ek(Ws[1], Ws[2], Ws[3], Ws[4],
                              [k \in 0..17 |-> Zero128]))

\* the array whose only set bit is one bit of byte p of entry k: the
\* derivation of the decryption keys of an array that is the xor of two
\* arrays is the xor of their derivations
UnitArray(k, p) ==
  [n \in 0..17 |-> IF n = k THEN UnitBlock(p, (k + p) % 8) ELSE Zero128]

\* the array whose 18 entries are 18 different blocks of RampBlocks
RampArray(b) == [n \in 0..17 |-> RampBlock((b + 13 * n) % 256)]

\* arrays ek for the decryption key derivation of an operation
PureArrays(name) ==
  {UnitArray(k, p) : k \in 1..17, p \in 0..15}
    \cup {RampArray(b) : b \in 0..15}
    \cup {KAT_ek(name)}

\* the decryption key derivation of the operation name on the array e:
\* the statements between compute_ek and the call of aria_crypt
dk_derive(name, e) ==
  Bind(dk_swap_ends(e, dk_of[name].last), LAMBDA e1 :
  Bind(dk_loop(e1, 2, dk_of[name].j0), LAMBDA e2 :
    dk_middle(e2, dk_of[name].mid)))

Bytes == 0..255

\* SB[b] of the source: the tables of the model start at 1
At(SB, b) == SB[b + 1]

\* pc says what arg is, then what has been applied to it
InitPure ==
  /\ \/ pc = "block" /\ arg \in PureBlocks
     \/ pc = "byte" /\ arg \in Bytes
     \/ pc = "W" /\ arg \in PureWs
     \/ /\ pc = "array"
        /\ \E name \in Decrypts :
             arg \in {[fn |-> name, ek |-> e] : e \in PureArrays(name)}
  /\ NoCall
  /\ ref = NoRef
  /\ val = NoArg

NoCallAfter ==
  UNCHANGED <<fn, KeyLeft, KeyRight, Text, W, ek, rounds, P, i, j, result,
              fault, reads, trace, steps, Plaintext, keysched, calls, ref>>

Apply_aria_A ==
  /\ pc = "block"
  /\ val' = aria_A(arg)
  /\ pc' = "aria_A"
  /\ UNCHANGED arg
  /\ NoCallAfter

Apply_aria_A_again ==
  /\ pc = "aria_A"
  /\ val' = aria_A(val)
  /\ pc' = "aria_A_aria_A"
  /\ UNCHANGED arg
  /\ NoCallAfter

Apply_SB1 ==
  /\ pc = "byte"
  /\ val' = At(SB1, arg)
  /\ pc' = "SB1"
  /\ UNCHANGED arg
  /\ NoCallAfter

Apply_SB3_to_SB1 ==
  /\ pc = "SB1"
  /\ val' = At(SB3, val)
  /\ pc' = "SB3_SB1"
  /\ UNCHANGED arg
  /\ NoCallAfter

Apply_SB2 ==
  /\ pc = "byte"
  /\ val' = At(SB2, arg)
  /\ pc' = "SB2"
  /\ UNCHANGED arg
  /\ NoCallAfter

Apply_SB4_to_SB2 ==
  /\ pc = "SB2"
  /\ val' = At(SB4, val)
  /\ pc' = "SB4_SB2"
  /\ UNCHANGED arg
  /\ NoCallAfter

Apply_compute_ek ==
  /\ pc = "W"
  /\ val' = compute_ek(arg[1], arg[2], arg[3], arg[4],
                       [k \in 0..17 |-> Zero128])
  /\ pc' = "compute_ek"
  /\ UNCHANGED arg
  /\ NoCallAfter

Apply_aria_SL1 ==
  /\ pc = "block"
  /\ val' = aria_SL1(arg)
  /\ pc' = "SL1"
  /\ UNCHANGED arg
  /\ NoCallAfter

Apply_aria_SL2_to_SL1 ==
  /\ pc = "SL1"
  /\ val' = aria_SL2(val)
  /\ pc' = "SL2_SL1"
  /\ UNCHANGED arg
  /\ NoCallAfter

Apply_aria_SL2 ==
  /\ pc = "block"
  /\ val' = aria_SL2(arg)
  /\ pc' = "SL2"
  /\ UNCHANGED arg
  /\ NoCallAfter

Apply_aria_SL1_to_SL2 ==
  /\ pc = "SL2"
  /\ val' = aria_SL1(val)
  /\ pc' = "SL1_SL2"
  /\ UNCHANGED arg
  /\ NoCallAfter

Apply_dk_derive ==
  /\ pc = "array"
  /\ val' = dk_derive(arg.fn, arg.ek)
  /\ pc' = "dk"
  /\ UNCHANGED arg
  /\ NoCallAfter

Apply_dk_derive_again ==
  /\ pc = "dk"
  /\ val' = dk_derive(arg.fn, val)
  /\ pc' = "dk_dk"
  /\ UNCHANGED arg
  /\ NoCallAfter

NextPure ==
  \/ Apply_dk_derive
  \/ Apply_dk_derive_again
  \/ Apply_aria_SL1
  \/ Apply_aria_SL2_to_SL1
  \/ Apply_aria_SL2
  \/ Apply_aria_SL1_to_SL2
  \/ Apply_compute_ek
  \/ Apply_aria_A
  \/ Apply_aria_A_again
  \/ Apply_SB1
  \/ Apply_SB3_to_SB1
  \/ Apply_SB2
  \/ Apply_SB4_to_SB2

SpecPure == InitPure /\ [][NextPure]_vars

(***************************************************************************)
(* Calls repeated: one call that returned is kept in ref, with what it     *)
(* returned and the values its P took, while further calls are made.       *)
(***************************************************************************)
DetKeyLefts == {KAT_KeyLeft}

DetKeyRights == {KAT_KeyRight_256}

DetBlocks == {KAT_Plaintext, KAT_Ciphertext_128}

DetCall ==
  /\ pc = "idle"
  /\ \E kl \in DetKeyLefts, kr \in DetKeyRights, t \in DetBlocks,
        s \in Stacks :
       \/ aria_encrypt_128(kl, t, s)
       \/ aria_encrypt_192(kl, kr, t, s)
       \/ aria_encrypt_256(kl, kr, t, s)
       \/ aria_decrypt_128(kl, t, s)
       \/ aria_decrypt_192(kl, kr, t, s)
       \/ aria_decrypt_256(kl, kr, t, s)
  /\ UNCHANGED <<Plaintext, ref, arg, val>>

\* the call returns and is the one kept
DetKeep ==
  /\ pc = "done"
  /\ ref = NoRef
  /\ ref' = [fn |-> fn, KeyLeft |-> KeyLeft, KeyRight |-> KeyRight,
             Text |-> Text, result |-> result, trace |-> trace,
             ek |-> ek]
  /\ Returned
  /\ UNCHANGED <<arg, val>>

NextDet ==
  \/ DetCall
  \/ DetKeep
  \/ RoundTrip
  \/ Return
  \/ DkSwapEnds
  \/ DkLoop
  \/ DkMiddle
  \/ CryptRound1
  \/ CryptLoop
  \/ CryptFinal

SpecDet == Init /\ [][NextDet]_vars

(***************************************************************************)
(* aria_crypt is called again with an array it has already been called     *)
(* with, as a caller does that keeps the round keys of a key for several   *)
(* blocks; ref keeps the array's first call and what it returned.          *)
(***************************************************************************)
\* the calls of aria_crypt made with one array
MaxCalls == 2

\* aria_crypt (rounds, ek, Plaintext) with the rounds and ek of the call
\* that has returned, and any block
CryptAgain ==
  /\ pc = "done"
  /\ calls < MaxCalls
  /\ \E t \in DetBlocks : Text' = t
  /\ pc' = "crypt"
  /\ P' = NoBlock
  /\ result' = NoBlock
  /\ reads' = <<>>
  /\ trace' = <<>>
  /\ steps' = steps - ((rounds \div 2) + 1)
  /\ ref' = IF ref = NoRef
            THEN [fn |-> fn, KeyLeft |-> KeyLeft, KeyRight |-> KeyRight,
                  Text |-> Text, result |-> result, trace |-> trace,
                  ek |-> ek]
            ELSE ref
  /\ UNCHANGED <<fn, KeyLeft, KeyRight, W, ek, rounds, i, j, fault,
                 Plaintext, keysched, calls, arg, val>>

\* the array goes out of scope with the operation that declared it
AgainReturn ==
  /\ pc = "done"
  /\ Returned
  /\ ref' = NoRef
  /\ UNCHANGED <<arg, val>>

NextAgain ==
  \/ DetCall
  \/ CryptAgain
  \/ AgainReturn
  \/ DkSwapEnds
  \/ DkLoop
  \/ DkMiddle
  \/ CryptRound1
  \/ CryptLoop
  \/ CryptFinal

SpecAgain == Init /\ [][NextAgain]_vars

(***************************************************************************)
(* The properties.                                                         *)
(***************************************************************************)
\* C1: for each key size 128, 192 and 256, every key and every block b of
\* the input sets, decrypting under the key what aria_encrypt_N returned
\* for b under the same key returns b.
C1_RoundTrip ==
  (pc = "done" /\ Plaintext # NoBlock) =>
    /\ fn \in Decrypts
    /\ result = Plaintext

\* an encryption under a 256-bit key whose result was decrypted back
C1_RoundTripDone ==
  /\ pc = "done"
  /\ fn = "aria_decrypt_256"
  /\ KeyLeft = AllOnes
  /\ KeyRight = KAT_KeyRight_256
  /\ Plaintext = KAT_Plaintext
  /\ Text # Plaintext
  /\ result = Plaintext

\* C2: with the plaintext 00112233445566778899aabbccddeeff, aria_encrypt_128
\* under 000102030405060708090a0b0c0d0e0f returns
\* d718fbd6ab644c739da95f3be6451778, aria_encrypt_192 under the key extended
\* by 1011121314151617 and zeros returns 26449c1805dbe7aa25a468ce263a9e79,
\* and aria_encrypt_256 under the key extended by
\* 101112131415161718191a1b1c1d1e1f returns
\* f92bd7c79fb72e2f2b8f80c1972d24fc.
C2_KnownAnswerEncrypt ==
  (pc = "done" /\ KeyLeft = KAT_KeyLeft /\ Text = KAT_Plaintext) =>
    /\ fn = "aria_encrypt_128" => result = KAT_Ciphertext_128
    /\ (fn = "aria_encrypt_192" /\ KeyRight = KAT_KeyRight_192) =>
         result = KAT_Ciphertext_192
    /\ (fn = "aria_encrypt_256" /\ KeyRight = KAT_KeyRight_256) =>
         result = KAT_Ciphertext_256

\* aria_encrypt_192 has returned for the reference key and plaintext
C2_Encrypted192 ==
  /\ pc = "done"
  /\ fn = "aria_encrypt_192"
  /\ KeyLeft = KAT_KeyLeft
  /\ KeyRight = KAT_KeyRight_192
  /\ Text = KAT_Plaintext
  /\ result = KAT_Ciphertext_192

\* C3: for each of the three reference vectors, aria_decrypt_N of the
\* reference ciphertext under the reference key returns the plaintext
\* 00112233445566778899aabbccddeeff.
C3_KnownAnswerDecrypt ==
  (pc = "done" /\ KeyLeft = KAT_KeyLeft) =>
    /\ (fn = "aria_decrypt_128" /\ Text = KAT_Ciphertext_128) =>
         result = KAT_Plaintext
    /\ (fn = "aria_decrypt_192" /\ KeyRight = KAT_KeyRight_192
          /\ Text = KAT_Ciphertext_192) =>
         result = KAT_Plaintext
    /\ (fn = "aria_decrypt_256" /\ KeyRight = KAT_KeyRight_256
          /\ Text = KAT_Ciphertext_256) =>
         result = KAT_Plaintext

\* aria_decrypt_128 has returned for the reference ciphertext, passed to it
\* directly and not by a round trip
C3_Decrypted128 ==
  /\ pc = "done"
  /\ fn = "aria_decrypt_128"
  /\ KeyLeft = KAT_KeyLeft
  /\ Text = KAT_Ciphertext_128
  /\ Plaintext = NoBlock
  /\ result = KAT_Plaintext

\* C4: encryption and decryption under a 128-, 192- and 256-bit key run
\* aria_crypt with exactly 12, 14 and 16 rounds and read exactly 13, 15 and
\* 17 round keys, those at the indices 1 .. rounds + 1.
C4_RoundsAndRoundKeys ==
  pc = "done" =>
    LET n == CASE fn \in {"aria_encrypt_128", "aria_decrypt_128"} -> 12
               [] fn \in {"aria_encrypt_192", "aria_decrypt_192"} -> 14
               [] fn \in {"aria_encrypt_256", "aria_decrypt_256"} -> 16
    IN /\ rounds = n
       /\ Len(reads) = n + 1
       /\ {reads[k] : k \in 1..Len(reads)} = 1..(n + 1)

\* aria_encrypt_192 has returned after 14 rounds and 15 round keys
C4_Crypt192Done ==
  /\ pc = "done"
  /\ fn = "aria_encrypt_192"
  /\ rounds = 14
  /\ Len(reads) = 15

\* C5: aria_init_key_schedule with a key size other than 128, 192 or 256
\* (0, 64 and 512 among them) returns KEY_SIZE_BAD and builds no schedule.
C5_KeySizeBad ==
  (pc = "ks_done" /\ keysched.key_size_in_bits \notin {128, 192, 256}) =>
    /\ keysched.err = "KEY_SIZE_BAD"
    /\ keysched.sched = <<>>

\* the call with a key size of 512 has returned
C5_Refused512 ==
  /\ pc = "ks_done"
  /\ keysched.key_size_in_bits = 512
  /\ keysched.err = "KEY_SIZE_BAD"

\* C6: for every 128-bit block x, aria_A(aria_A(x)) = x.
C6_DiffusionInvolution == pc = "aria_A_aria_A" => val = arg

\* aria_A applied twice to a block it does not leave as it is
C6_AppliedTwice ==
  /\ pc = "aria_A_aria_A"
  /\ arg = UnitBlock(5, 0)
  /\ aria_A(arg) # arg
  /\ val = arg

\* C7: for every byte b in 0 .. 255, SB3[SB1[b]] = b and SB4[SB2[b]] = b.
C7_SboxInverse == pc \in {"SB3_SB1", "SB4_SB2"} => val = arg

\* the byte 0 looked up in SB1, and what was found looked up in SB3
C7_LookedUpTwice ==
  /\ pc = "SB3_SB1"
  /\ arg = 0
  /\ At(SB1, arg) # arg
  /\ val = arg

\* the running call has the operation and the arguments of the call kept
SameCall ==
  /\ ref # NoRef
  /\ fn = ref.fn
  /\ KeyLeft = ref.KeyLeft
  /\ KeyRight = ref.KeyRight
  /\ Text = ref.Text

\* C8: whatever calls were made before and whatever they left behind, a
\* call with the key size, key, block and direction of a call made earlier
\* returns what that call returned, and its P takes the same values step by
\* step.
C8_Deterministic ==
  SameCall =>
    /\ pc # "fault"
    /\ Len(trace) <= Len(ref.trace)
    /\ \A n \in 1..Len(trace) : trace[n] = ref.trace[n]
    /\ pc = "done" => (result = ref.result /\ trace = ref.trace)

\* a call repeated whose array ek held something else on entry
C8_RepeatedCall ==
  /\ SameCall
  /\ pc = "done"
  /\ fn = "aria_encrypt_256"
  /\ ek[0] # ref.ek[0]
  /\ result = ref.result

\* C9: each of the six operations, for every key and block, terminates and
\* returns a 128-bit block without undefined behaviour: every S-box
\* subscript is in 0 .. 255 and every subscript of the round-key array is in
\* 0 .. 17.
C9_Total ==
  /\ pc # "fault"
  /\ fault = "none"
  /\ pc \in {"dk_swap", "dk_loop", "crypt", "crypt_loop"} => ENABLED Step
  /\ steps <= IF fn \in Decrypts THEN rounds_of[fn] + 3
              ELSE IF fn \in Encrypts THEN (rounds_of[fn] \div 2) + 2
              ELSE 0
  /\ pc = "done" =>
       /\ Is_aria_u128_t(result)
       /\ steps = IF fn \in Decrypts THEN rounds + 3 ELSE (rounds \div 2) + 2

\* aria_decrypt_256 has returned a block after its 19 steps, under a key
\* with every bit set
C9_Returned ==
  /\ pc = "done"
  /\ fn = "aria_decrypt_256"
  /\ KeyLeft = AllOnes
  /\ steps = 19
  /\ Is_aria_u128_t(result)

\* C10: in every execution of aria_encrypt_192 and aria_decrypt_192 the low
\* 64 bits of KeyRight, KeyRight.right, are zero.
C10_KeyRightLowZero ==
  fn \in {"aria_encrypt_192", "aria_decrypt_192"} =>
    KeyRight.right = <<0, 0, 0, 0, 0, 0, 0, 0>>

\* C11: for rounds 12, 14 and 16, every round-key array and input block of
\* the calls made, aria_crypt returns SL2(P[rounds-1] XOR key[rounds]) XOR
\* key[rounds+1], where P[1] = FO(input, key[1]) and, for 2 <= n <= rounds-1,
\* P[n] = FE(P[n-1], key[n]) for even n and FO(P[n-1], key[n]) for odd n; the
\* last round applies no diffusion.
C11_RoundSequence ==
  pc = "done" =>
    /\ rounds \in {12, 14, 16}
    /\ Len(trace) = rounds - 1
    /\ trace[1] = aria_FO(Text, ek[1])
    /\ \A n \in 2..(rounds - 1) :
         trace[n] = IF n % 2 = 0 THEN aria_FE(trace[n - 1], ek[n])
                    ELSE aria_FO(trace[n - 1], ek[n])
    /\ result = xor(aria_SL2(xor(trace[rounds - 1], ek[rounds])),
                    ek[rounds + 1])

\* aria_crypt has returned from 14 rounds on the round keys of a decryption,
\* and its last round was not the even round function
C11_Crypt14Done ==
  /\ pc = "done"
  /\ fn = "aria_decrypt_192"
  /\ rounds = 14
  /\ Len(trace) = 13
  /\ result # aria_FE(trace[13], ek[14])

\* C12: for each key size, with n = 12, 14, 16 rounds and the encryption
\* round keys e[1 .. n+1] of the key, the array aria_decrypt_N hands to
\* aria_crypt has dk[1] = e[n+1], dk[n+1] = e[1] and dk[k] = A(e[n+2-k]) for
\* every 2 <= k <= n, the middle index n/2 + 1 included, where A is applied
\* once to the entry of the same index.
C12_DecryptionRoundKeys ==
  (pc = "crypt" /\ fn \in Decrypts) =>
    LET n == CASE fn = "aria_decrypt_128" -> 12
               [] fn = "aria_decrypt_192" -> 14
               [] fn = "aria_decrypt_256" -> 16
    IN Bind(compute_ek(W[1], W[2], W[3], W[4], ek), LAMBDA e :
         /\ ek[1] = e[n + 1]
         /\ ek[n + 1] = e[1]
         /\ \A k \in 2..n : ek[k] = aria_A(e[n + 2 - k])
         /\ ek[(n \div 2) + 1] = aria_A(e[(n \div 2) + 1]))

\* aria_decrypt_256 is about to call aria_crypt, and aria_A has changed the
\* middle entry of its array
C12_Derived256 ==
  /\ pc = "crypt"
  /\ fn = "aria_decrypt_256"
  /\ KeyLeft = KAT_KeyLeft
  /\ ek[9] # compute_ek(W[1], W[2], W[3], W[4], ek)[9]
  /\ ek[1] = compute_ek(W[1], W[2], W[3], W[4], ek)[17]

\* C13 as amended: in the decryption key derivation, after the first and
\* the last entry are swapped, the remaining entries are paired
\* symmetrically, index 2 with index rounds and index 3 with index
\* rounds - 1 (and so on); each pair is swapped and the diffusion layer is
\* applied to both entries after swapping.
C13_PairsSymmetric ==
  pc = "dk_loop" =>
    LET n == CASE fn = "aria_decrypt_128" -> 12
               [] fn = "aria_decrypt_192" -> 14
               [] fn = "aria_decrypt_256" -> 16
    IN Bind(compute_ek(W[1], W[2], W[3], W[4], ek), LAMBDA e :
         /\ j = n + 2 - i
         /\ \A k \in 2..(i - 1) :
              /\ ek[k] = aria_A(e[n + 2 - k])
              /\ ek[n + 2 - k] = aria_A(e[k])
         /\ \A k \in i..j : ek[k] = e[k])

\* two pairs of aria_decrypt_128 have been swapped: 2 with 12, 3 with 11
C13_TwoPairsSwapped ==
  /\ pc = "dk_loop"
  /\ fn = "aria_decrypt_128"
  /\ i = 4
  /\ j = 10
  /\ ek[2] = aria_A(compute_ek(W[1], W[2], W[3], W[4], ek)[12])
  /\ ek[2] # aria_A(compute_ek(W[1], W[2], W[3], W[4], ek)[11])

\* C13 as stated: after the first and the last entry are swapped, the
\* remaining entries are paired symmetrically, index 2 with index
\* rounds - 1 and index 3 with index rounds - 2 (and so on); each pair is
\* swapped and the diffusion layer is applied to both entries after swapping.
C13_PairsAsStated ==
  pc = "dk_loop" =>
    LET n == CASE fn = "aria_decrypt_128" -> 12
               [] fn = "aria_decrypt_192" -> 14
               [] fn = "aria_decrypt_256" -> 16
    IN Bind(compute_ek(W[1], W[2], W[3], W[4], ek), LAMBDA e :
         /\ j = n + 1 - i
         /\ \A k \in 2..(i - 1) :
              /\ ek[k] = aria_A(e[n + 1 - k])
              /\ ek[n + 1 - k] = aria_A(e[k]))

\* C14: for every key, W0 = KL, W1 = FO(W0, CK1) XOR KR, W2 = FE(W1, CK2)
\* XOR W0 and W3 = FO(W2, CK3) XOR W1, where (CK1, CK2, CK3) is (C1, C2, C3)
\* for a 128-bit key, (C2, C3, C1) for a 192-bit key and (C3, C1, C2) for a
\* 256-bit key, and KR is all zero for a 128-bit key; W0 .. W3 depend on the
\* key and its size only, so that the encrypt and the decrypt operation of
\* one key size compute the same W0 .. W3.
C14_KeyScheduleFeistel ==
  (fn # "none" /\ pc # "fault") =>
    LET size == CASE fn \in {"aria_encrypt_128", "aria_decrypt_128"} -> 128
                  [] fn \in {"aria_encrypt_192", "aria_decrypt_192"} -> 192
                  [] fn \in {"aria_encrypt_256", "aria_decrypt_256"} -> 256
        CK == CASE size = 128 -> <<C1, C2, C3>>
                [] size = 192 -> <<C2, C3, C1>>
                [] size = 256 -> <<C3, C1, C2>>
        KR == IF size = 128 THEN Zero128 ELSE KeyRight
    IN /\ W[1] = KeyLeft
       /\ W[2] = xor(aria_FO(W[1], CK[1]), KR)
       /\ W[3] = xor(aria_FE(W[2], CK[2]), W[1])
       /\ W[4] = xor(aria_FO(W[3], CK[3]), W[2])

\* aria_decrypt_192 has computed W0 .. W3 from a key whose KR is not zero
C14_Scheduled192 ==
  /\ pc = "dk_swap"
  /\ fn = "aria_decrypt_192"
  /\ KeyLeft = KAT_KeyLeft
  /\ KeyRight = KAT_KeyRight_192
  /\ W[2] = xor(aria_FO(KAT_KeyLeft, C2), KAT_KeyRight_192)
  /\ W[2] # aria_FO(KAT_KeyLeft, C2)

\* C15: for all W0 .. W3, compute_ek yields ek1 .. ek17 equal to the 17
\* documented formulas (ek1 .. ek4 with right rotation by 19, ek5 .. ek8 by
\* 31, ek9 .. ek12 with left rotation by 61, ek13 .. ek16 by 31, ek17 = W0
\* XOR (W1 <<< 19)), where rol and ror on two 64-bit halves are the circular
\* rotations of the 128-bit value.
C15_RoundKeyFormulas ==
  pc = "compute_ek" =>
    /\ DOMAIN val = 0..17
    /\ Bind(ek_reference(arg[1], arg[2], arg[3], arg[4]), LAMBDA e :
         \A k \in 1..17 : val[k] = e[k])

\* compute_ek applied to W0 .. W3 of which only the leftmost bit of W1 is
\* set: ek1 has bit 19 set, and in ek9 the bit has gone round to bit 67
C15_Expanded ==
  /\ pc = "compute_ek"
  /\ arg = <<Zero128, UnitBlock(0, 7), Zero128, Zero128>>
  /\ val[1] = UnitBlock(2, 4)
  /\ val[9] = UnitBlock(8, 4)

\* C16: with the key 000102030405060708090a0b0c0d0e0f the schedule produces
\* the documented W1 = 2afbea74..., W2 = 7c857801..., W3 = 6785b52b... and
\* the documented round keys e1 = d415a75c... to e13 = 0f0aa16d..., and the
\* encryption of 00112233445566778899aabbccddeeff passes through the
\* documented round values P1 = 7fc7f12b... to P11 = e7e0d245....
C16_DocumentedValues ==
  (fn = "aria_encrypt_128" /\ KeyLeft = KAT_KeyLeft /\ pc # "fault") =>
    /\ W = A1_W
    /\ \A k \in 1..13 : ek[k] = A1_e[k]
    /\ Text = KAT_Plaintext =>
         /\ Len(trace) <= 11
         /\ \A n \in 1..Len(trace) : trace[n] = A1_P[n]
         /\ pc = "done" => Len(trace) = 11

\* the encryption of the plaintext under the key has returned, after P11
C16_Encrypted128 ==
  /\ pc = "done"
  /\ fn = "aria_encrypt_128"
  /\ KeyLeft = KAT_KeyLeft
  /\ Text = KAT_Plaintext
  /\ trace[11] = A1_P[11]
  /\ ek[13] = A1_e[13]

\* C17: for every block x, each of the 16 output bytes of aria_A, in the
\* compiled form with the shared terms t0 .. t3, is the xor of exactly the 7
\* input bytes of the documented equations y0 = x3^x4^x6^x8^x9^x13^x14, ...,
\* y15 = x1^x2^x4^x5^x8^x10^x15: the compiled form equals the direct form
\* byte for byte.
C17_DiffusionRows ==
  pc = "aria_A" =>
    \A p \in 0..15 :
      /\ Cardinality(A_rows[p + 1]) = 7
      /\ ByteAt(val, p) = XorBytes(A_rows[p + 1], arg)

\* aria_A applied to the block whose only set bit is in x3: the bit is in
\* 7 of the output bytes, y0 among them
C17_OneByteSpread ==
  /\ pc = "aria_A"
  /\ arg = UnitBlock(3, 0)
  /\ ByteAt(val, 0) = 1
  /\ Cardinality({p \in 0..15 : ByteAt(val, p) # 0}) = 7

\* C18: aria_SL1 applies (SB1, SB2, SB3, SB4) and aria_SL2 applies (SB3,
\* SB4, SB1, SB2) cyclically over the byte positions 0 .. 15 (position 0 the
\* most significant byte of the left half), each output byte depending only
\* on the input byte at the same position, so that aria_SL2(aria_SL1(x)) = x
\* and aria_SL1(aria_SL2(x)) = x for every block x.
C18_SubstitutionLayers ==
  /\ pc = "SL1" =>
       \A p \in 0..15 :
         ByteAt(val, p) = At(<<SB1, SB2, SB3, SB4>>[(p % 4) + 1], ByteAt(arg, p))
  /\ pc = "SL2" =>
       \A p \in 0..15 :
         ByteAt(val, p) = At(<<SB3, SB4, SB1, SB2>>[(p % 4) + 1], ByteAt(arg, p))
  /\ pc \in {"SL2_SL1", "SL1_SL2"} => val = arg

\* aria_SL2 applied to what aria_SL1 made of a block it changes
C18_SubstitutedBack ==
  /\ pc = "SL2_SL1"
  /\ arg = RampBlock(0)
  /\ aria_SL1(arg) # arg
  /\ val = arg

\* C19: for rounds 12, 14 and 16, one call of aria_crypt reads key[1],
\* key[2], ..., key[rounds+1], each once and in increasing order of index,
\* reads neither index 0 nor an index above rounds + 1, and leaves its loop
\* with the loop index equal to rounds, the last step of the loop being FO
\* with key[rounds-1].
C19_ConsumptionOrder ==
  /\ \A k \in 1..Len(reads) : reads[k] = k
  /\ pc = "crypt_loop" =>
       /\ i <= rounds
       /\ Len(reads) = i - 1
  /\ pc = "done" =>
       /\ rounds \in {12, 14, 16}
       /\ Len(reads) = rounds + 1
       /\ i = rounds
       /\ trace[rounds - 1] = aria_FO(trace[rounds - 2], ek[rounds - 1])

\* aria_crypt has returned from 16 rounds, having read 17 round keys, the
\* last of them key[17]
C19_Consumed17 ==
  /\ pc = "done"
  /\ fn = "aria_encrypt_256"
  /\ i = 16
  /\ Len(reads) = 17
  /\ reads[17] = 17

\* C20: in every execution of an encrypt or decrypt operation, every call
\* of rol or ror is made with a bit count strictly between 0 and 64, so that
\* no 64-bit value is shifted by 64 or more.
C20_RotationCounts ==
  /\ fault # "shift"
  /\ fn # "none" =>
       \A k \in 1..17 : 0 < cnt_of[k] /\ cnt_of[k] < 64 /\ 0 < 64 - cnt_of[k]

\* compute_ek has made its 17 calls of rol and ror for aria_decrypt_256,
\* the call with the count 61 among them
C20_Rotated ==
  /\ pc = "dk_swap"
  /\ fn = "aria_decrypt_256"
  /\ fault = "none"
  /\ ek[9] = xor(W[1], rol(W[2], 61))
  /\ ek[9] # xor(W[1], W[2])

\* C21: aria_crypt leaves every entry of the round-key array it is given
\* unchanged: while it runs and after it has returned, however many times it
\* was called with the array, entries 1 .. 17 are those the operation
\* constructed (compute_ek's for an encryption, the derived decryption keys
\* for a decryption), and a call returns what the array's first call
\* returned for the same block.
C21_ScheduleReadOnly ==
  /\ pc \in {"crypt", "crypt_loop", "done"} =>
       Bind(compute_ek(W[1], W[2], W[3], W[4], ek), LAMBDA e :
         IF fn \in Encrypts
         THEN \A k \in 1..17 : ek[k] = e[k]
         ELSE LET n == dk_of[fn].j0
              IN /\ ek[1] = e[n + 1]
                 /\ ek[n + 1] = e[1]
                 /\ \A k \in 2..n : ek[k] = aria_A(e[n + 2 - k])
                 /\ \A k \in (n + 2)..17 : ek[k] = e[k])
  /\ (pc \in {"crypt", "crypt_loop", "done"} /\ ref # NoRef) =>
       \A k \in 1..17 : ek[k] = ref.ek[k]
  /\ (pc = "done" /\ ref # NoRef /\ Text = ref.Text) =>
       result = ref.result

\* aria_crypt has returned from its second call with the array of
\* aria_decrypt_192, on the block of the first call
C21_CalledTwice ==
  /\ pc = "done"
  /\ fn = "aria_decrypt_192"
  /\ calls = 2
  /\ ref # NoRef
  /\ Text = ref.Text
  /\ result # NoBlock

\* C22: the decryption key derivation is an involution on round-key arrays:
\* for each of aria_decrypt_128, aria_decrypt_192 and aria_decrypt_256, with
\* n = 12, 14, 16 rounds, the derivation (the first and the last entry
\* swapped, the symmetric pairs swapped and diffused, the middle entry
\* diffused) applied twice to an array ek gives back ek[1 .. n+1].
C22_DerivationInvolution ==
  pc = "dk_dk" =>
    \A k \in 1..(rounds_of[arg.fn] + 1) : val[k] = arg.ek[k]

\* the derivation of aria_decrypt_256 has been applied twice to the round
\* keys of the 256-bit key of main, of which no two are equal
C22_DerivedTwice ==
  /\ pc = "dk_dk"
  /\ arg.fn = "aria_decrypt_256"
  /\ arg.ek = KAT_ek("aria_decrypt_256")
  /\ \A k \in 1..17 : \A m \in 1..17 : k # m => arg.ek[k] # arg.ek[m]
  /\ val[1] = arg.ek[1]

====
